---- MODULE Spec2Model ----
(***************************************************************************)
(* The progress ledger (SessionState, session_management.py), the phase    *)
(* scheduler queries built on it, the cleanup tool (session_cleanup.py)    *)
(* and the orchestrator run_enhanced_facebook_automation                   *)
(* (facebook_automation.py).                                               *)
(*                                                                         *)
(* A ledger record is the dict held in SessionState.state; its lists are   *)
(* sequences, in append order.  The durable record is the content of       *)
(* session_state.json: the empty sequence while the file does not exist,   *)
(* a one-element sequence holding the record once it was written.          *)
(* An account of the catalog is identified with its id (AccId).            *)
(***************************************************************************)
EXTENDS Naturals, Sequences, FiniteSets, TLC

\* ------------------------------------------------------------------ bounds
MaxClock == 1
MaxCalls == 4
MaxRuns == 2
MaxStoreCalls == 3      \* calls made on the failing storage
MaxWait == 4            \* largest configured login_max_wait besides the default
MaxAttempts == 2        \* largest configured retry.max_attempts of a login
MaxPasses == 2          \* passes of the recovery loop that are followed
MaxRetries == 3         \* largest max_retries handed to retry_with_backoff
MaxBaseDelay == 2       \* largest base_delay, in seconds
TicksPerSecond == 2     \* resolution of the sleeps: a tick is 1/TicksPerSecond s

\* random.uniform(0, 2): the largest jitter, in seconds
JitterMax == 2

\* the ids the calls and the catalogs draw from
AccountIds == {"a1", "a2"}
PostUrls == {"r1", "r2"}

None == "None"

Range(s) == {s[k] : k \in DOMAIN s}

\* the catalogs: sequences without repetition (add_account / add_url refuse
\* an entry that is already present)
DistinctSeqs(S) ==
    UNION {{s \in [1..n -> S] : \A p, q \in 1..n : p # q => s[p] # s[q]} :
           n \in 0..Cardinality(S)}

VARIABLES
    file,               \* durable record: <<>> (no file) or <<record>>
    session,            \* SessionState.state of the instance in use
    gsession,           \* SessionState.state of the module-level instance
    accounts,           \* account catalog
    post_urls,          \* resource catalog
    now,                \* the clock read by datetime.now()
    accounts_to_login,  \* last result of get_accounts_for_login
    post_tasks,         \* last result of get_accounts_for_posts
    op,                 \* the last ledger call: name and arguments
    calls,              \* number of ledger calls made
    repeated,           \* the last call repeated the call before it
    last_outcome,       \* per id: outcome of its latest mark_login_attempt
    pc,                 \* position of the orchestrator
    i,                  \* loop index of the current phase
    browser,            \* the open browser profile (an account id) or None
    run_no,             \* number of orchestrator runs started
    recorded,           \* every outcome the runs have recorded so far
    max_retries,        \* retry_with_backoff: its arguments
    base_delay,
    attempt,            \* retry_with_backoff: the loop variable
    delay,              \* the last delay slept, in ticks
    invoked,            \* number of invocations of func so far
    sleeps,             \* number of calls of time.sleep so far
    slept,              \* total time slept, in ticks
    rstatus,            \* "idle", "running", "returned" or "raised"
    error,              \* the invocation whose exception reached the caller
    result,             \* the invocation whose result was returned
    removed_counts,     \* what the cleanup tool's last call returned
    variant,            \* the module whose enhanced_login_to_facebook runs
    caller,             \* the call site of the login
    from_post,          \* login_handler's flag: the login is non-interactive
    max_wait,           \* config timeouts.login_max_wait, in seconds
    apc,                \* position of the login
    aresult,            \* how the current login_attempt ended
    waited,             \* login_attempt: seconds waited in the poll loop
    polls,              \* poll iterations of the current attempt
    filled,             \* the current attempt has filled the login form
    detected,           \* challenge classified before the form, this attempt
    skipped,            \* the operator answered skip in this attempt
    seen,               \* what the last poll iteration saw on the page
    marks,              \* the mark_login_attempt calls of this login
    prompted,           \* input() was called during this login
    auth_return,        \* what enhanced_login_to_facebook returned
    open_profiles,      \* the browser profiles that are open
    gap,                \* the delay slept after the last task that ended
    ppc,                \* position of enhanced_like_comment_post
    comments_empty,     \* config posts.comment_variations is an empty list
    like_success,       \* what retry_with_backoff(like_attempt) returned
    comment_success,    \* what retry_with_backoff(comment_attempt) returned
    tries,              \* invocations of like_attempt and of comment_attempt
    post_return         \* what enhanced_like_comment_post returned

vars == <<file, session, gsession, accounts, post_urls, now, accounts_to_login,
          post_tasks, op, calls, repeated,
          last_outcome, pc, i, browser, run_no, recorded,
          max_retries, base_delay, attempt, delay, invoked, sleeps, slept,
          rstatus, error, result, removed_counts,
          variant, caller, from_post, max_wait, apc, aresult, waited, polls,
          filled, detected, skipped, seen, marks, prompted, auth_return,
          open_profiles, gap,
          ppc, comments_empty, like_success, comment_success, tries, post_return>>

ledgerVars == <<file, session, gsession>>
catalogVars == <<accounts, post_urls>>
queryVars == <<accounts_to_login, post_tasks>>
apiVars == <<op, calls, repeated, last_outcome>>
callVars == <<op, calls, repeated>>
runVars == <<pc, i, browser, run_no, recorded>>
retryVars == <<max_retries, base_delay, attempt, delay, invoked, sleeps, slept,
               rstatus, error, result>>
toolVars == <<removed_counts>>
authVars == <<variant, caller, from_post, max_wait, apc, aresult, waited, polls,
              filled, detected, skipped, seen, marks, prompted, auth_return>>
envVars == <<open_profiles, gap>>
postVars == <<ppc, comments_empty, like_success, comment_success, tries,
              post_return>>
restVars == <<authVars, envVars, postVars>>
extVars == <<retryVars, toolVars, restVars>>

NoPoll == [logged_in |-> FALSE, alert |-> FALSE]

\* the bounds of random.uniform for the delay between two logins and between
\* two interactions, in seconds
LoginGapMin == 10
LoginGapMax == 30
PostGapMin == 5
PostGapMax == 15

NoGap == [lo |-> 0, hi |-> 0]

NoTries == [like |-> 0, comment |-> 0]

\* no interaction is under way
PostIdle ==
    /\ ppc = "idle"
    /\ comments_empty = FALSE
    /\ like_success = "none"
    /\ comment_success = "none"
    /\ tries = NoTries
    /\ post_return = "none"
LoginGap == [lo |-> LoginGapMin, hi |-> LoginGapMax]
PostGap == [lo |-> PostGapMin, hi |-> PostGapMax]

\* no login is under way
AuthIdle ==
    /\ variant = "facebook_automation"
    /\ caller = "none"
    /\ from_post = FALSE
    /\ max_wait = 0
    /\ apc = "idle"
    /\ aresult = "none"
    /\ waited = 0
    /\ polls = 0
    /\ filled = FALSE
    /\ detected = "NONE"
    /\ skipped = FALSE
    /\ seen = NoPoll
    /\ marks = <<>>
    /\ prompted = FALSE
    /\ auth_return = "none"

\* no call of retry_with_backoff is under way
RetryIdle ==
    /\ max_retries = 0
    /\ base_delay = 0
    /\ attempt = 0
    /\ delay = 0
    /\ invoked = 0
    /\ sleeps = 0
    /\ slept = 0
    /\ rstatus = "idle"
    /\ error = 0
    /\ result = 0

\* the cleanup tool has returned nothing
NoCounts ==
    [login_attempts |-> 0, successful_logins |-> 0, failed_logins |-> 0,
     processed_posts |-> 0, current_account_reset |-> 0]

\* recorded is the history of the runs: the login outcomes (the latest one
\* of each account) and the pairs handed to mark_login_attempt and
\* mark_post_processed so far, whichever ledger instance received them;
\* twice holds the pairs whose interaction succeeded more than once, aborted
\* the accounts whose phase-1 task of the current run ended by an exception
\* before the login recorded an outcome, started the number of tasks the
\* current run has started
NothingRecorded ==
    [attempts |-> {}, ok |-> {}, failed |-> {}, processed |-> {},
     twice |-> {}, aborted |-> {}, started |-> 0, tasks |-> {}]

RecordLogin(r, acc, success) ==
    [r EXCEPT !.attempts = @ \cup {acc},
              !.ok = IF success THEN @ \cup {acc} ELSE @ \ {acc},
              !.failed = IF success THEN @ \ {acc} ELSE @ \cup {acc}]

RecordPost(r, acc, url) ==
    [r EXCEPT !.processed = @ \cup {<<acc, url>>},
              !.twice = IF <<acc, url>> \in r.processed
                        THEN @ \cup {<<acc, url>>} ELSE @]

RecordAbort(r, acc) == [r EXCEPT !.aborted = @ \cup {acc}]

RecordStart(r) == [r EXCEPT !.started = @ + 1]

\* tasks holds the pairs for which process_single_post was called
RecordTask(r, pair) == [r EXCEPT !.tasks = @ \cup {pair}]

\* ------------------------------------------------ SessionState (the ledger)

\* list.remove(x): drops the first occurrence of x
RECURSIVE RemoveFirst(_, _)
RemoveFirst(s, x) ==
    IF s = <<>> THEN <<>>
    ELSE IF Head(s) = x THEN Tail(s)
    ELSE <<Head(s)>> \o RemoveFirst(Tail(s), x)

\* the record load_state builds when there is nothing to load
fresh_state(t) ==
    [session_id |-> t,
     login_attempts |-> <<>>,
     successful_logins |-> <<>>,
     failed_logins |-> <<>>,
     processed_posts |-> <<>>,
     current_account |-> None,
     start_time |-> t,
     last_update |-> t]

\* the content of a file json.load cannot parse
Corrupt == [corrupt |-> TRUE]

load_state(f, t) == IF f # <<>> /\ f[1] # Corrupt THEN f[1] ELSE fresh_state(t)

\* save_state stamps last_update; the caller writes the result to the file
save_state(st, t) == [st EXCEPT !.last_update = t]

\* mark_login_attempt that appends to login_attempts without looking for
\* the id
mark_login_attempt_append_always(st, account_id, success) ==
    LET s1 == [st EXCEPT !.login_attempts = Append(@, account_id)]
    IN IF success
       THEN LET s2 == IF account_id \notin Range(s1.successful_logins)
                      THEN [s1 EXCEPT !.successful_logins = Append(@, account_id)]
                      ELSE s1
            IN IF account_id \in Range(s2.failed_logins)
               THEN [s2 EXCEPT !.failed_logins = RemoveFirst(@, account_id)]
               ELSE s2
       ELSE LET s2 == IF account_id \notin Range(s1.failed_logins)
                      THEN [s1 EXCEPT !.failed_logins = Append(@, account_id)]
                      ELSE s1
            IN IF account_id \in Range(s2.successful_logins)
               THEN [s2 EXCEPT !.successful_logins = RemoveFirst(@, account_id)]
               ELSE s2

\* mark_login_attempt that leaves the id in the opposite list
mark_login_attempt_keep_opposite(st, account_id, success) ==
    LET s1 == IF account_id \notin Range(st.login_attempts)
              THEN [st EXCEPT !.login_attempts = Append(@, account_id)]
              ELSE st
    IN IF success
       THEN IF account_id \notin Range(s1.successful_logins)
            THEN [s1 EXCEPT !.successful_logins = Append(@, account_id)]
            ELSE s1
       ELSE IF account_id \notin Range(s1.failed_logins)
            THEN [s1 EXCEPT !.failed_logins = Append(@, account_id)]
            ELSE s1

\* mark_login_attempt that does not enter the id in login_attempts
mark_login_attempt_no_attempt(st, account_id, success) ==
    IF success
    THEN LET s2 == IF account_id \notin Range(st.successful_logins)
                   THEN [st EXCEPT !.successful_logins = Append(@, account_id)]
                   ELSE st
         IN IF account_id \in Range(s2.failed_logins)
            THEN [s2 EXCEPT !.failed_logins = RemoveFirst(@, account_id)]
            ELSE s2
    ELSE LET s2 == IF account_id \notin Range(st.failed_logins)
                   THEN [st EXCEPT !.failed_logins = Append(@, account_id)]
                   ELSE st
         IN IF account_id \in Range(s2.successful_logins)
            THEN [s2 EXCEPT !.successful_logins = RemoveFirst(@, account_id)]
            ELSE s2

\* mark_login_attempt that drops the head of the opposite list (pop(0))
\* where the code removes the id
mark_login_attempt_pop_head(st, account_id, success) ==
    LET s1 == IF account_id \notin Range(st.login_attempts)
              THEN [st EXCEPT !.login_attempts = Append(@, account_id)]
              ELSE st
    IN IF success
       THEN LET s2 == IF account_id \notin Range(s1.successful_logins)
                      THEN [s1 EXCEPT !.successful_logins = Append(@, account_id)]
                      ELSE s1
            IN IF account_id \in Range(s2.failed_logins)
               THEN [s2 EXCEPT !.failed_logins = Tail(@)]
               ELSE s2
       ELSE LET s2 == IF account_id \notin Range(s1.failed_logins)
                      THEN [s1 EXCEPT !.failed_logins = Append(@, account_id)]
                      ELSE s1
            IN IF account_id \in Range(s2.successful_logins)
               THEN [s2 EXCEPT !.successful_logins = Tail(@)]
               ELSE s2

mark_login_attempt(st, account_id, success) ==
    LET s1 == IF account_id \notin Range(st.login_attempts)
              THEN [st EXCEPT !.login_attempts = Append(@, account_id)]
              ELSE st
    IN IF success
       THEN LET s2 == IF account_id \notin Range(s1.successful_logins)
                      THEN [s1 EXCEPT !.successful_logins = Append(@, account_id)]
                      ELSE s1
            IN IF account_id \in Range(s2.failed_logins)
               THEN [s2 EXCEPT !.failed_logins = RemoveFirst(@, account_id)]
               ELSE s2
       ELSE LET s2 == IF account_id \notin Range(s1.failed_logins)
                      THEN [s1 EXCEPT !.failed_logins = Append(@, account_id)]
                      ELSE s1
            IN IF account_id \in Range(s2.successful_logins)
               THEN [s2 EXCEPT !.successful_logins = RemoveFirst(@, account_id)]
               ELSE s2

Entry(account_id, post_url) == [account_id |-> account_id, post_url |-> post_url]

\* mark_post_processed that appends without looking for the entry
mark_post_processed_no_check(st, account_id, post_url) ==
    [st EXCEPT !.processed_posts = Append(@, Entry(account_id, post_url))]

\* mark_post_processed that keeps only the entries of the account
mark_post_processed_own_only(st, account_id, post_url) ==
    LET own(e) == e.account_id = account_id
        kept == SelectSeq(st.processed_posts, own)
    IN IF Entry(account_id, post_url) \notin Range(kept)
       THEN [st EXCEPT !.processed_posts = Append(kept, Entry(account_id, post_url))]
       ELSE [st EXCEPT !.processed_posts = kept]

mark_post_processed(st, account_id, post_url) ==
    IF Entry(account_id, post_url) \notin Range(st.processed_posts)
    THEN [st EXCEPT !.processed_posts = Append(@, Entry(account_id, post_url))]
    ELSE st

has_processed_post(st, account_id, post_url) ==
    Entry(account_id, post_url) \in Range(st.processed_posts)

\* acc.get("id")
AccId(acc) == acc

\* get_accounts_for_login that offers the failed accounts again
get_accounts_for_login_retry_failed(st, all_accounts) ==
    LET done_ids == Range(st.successful_logins)
        keep(acc) == AccId(acc) \notin done_ids
    IN SelectSeq(all_accounts, keep)

get_accounts_for_login(st, all_accounts) ==
    LET attempted_ids == Range(st.login_attempts)
        keep(acc) == AccId(acc) \notin attempted_ids
    IN SelectSeq(all_accounts, keep)

\* the inner loop of get_accounts_for_posts, for one account
urls_for(st, acc, urls) ==
    LET todo(url) == ~has_processed_post(st, AccId(acc), url)
        sel == SelectSeq(urls, todo)
    IN [k \in 1..Len(sel) |-> <<acc, sel[k]>>]

RECURSIVE posts_loop(_, _, _)
posts_loop(st, all_accounts, urls) ==
    IF all_accounts = <<>> THEN <<>>
    ELSE (IF AccId(Head(all_accounts)) \in Range(st.successful_logins)
          THEN urls_for(st, Head(all_accounts), urls)
          ELSE <<>>)
         \o posts_loop(st, Tail(all_accounts), urls)

\* get_accounts_for_posts that takes every attempted account
get_accounts_for_posts_attempted(st, all_accounts, urls) ==
    posts_loop([st EXCEPT !.successful_logins = st.login_attempts], all_accounts, urls)

get_accounts_for_posts(st, all_accounts, urls) == posts_loop(st, all_accounts, urls)

reset_session(t) == fresh_state(t)

set_current_account(st, account_id) == [st EXCEPT !.current_account = account_id]

\* the removal that clears current_account whatever it points to
remove_account_ids_reset_current(st, ids) ==
    LET keep(x) == x \notin ids
        keepEntry(e) == e.account_id \notin ids
    IN [st EXCEPT !.login_attempts = SelectSeq(@, keep),
                  !.successful_logins = SelectSeq(@, keep),
                  !.failed_logins = SelectSeq(@, keep),
                  !.processed_posts = SelectSeq(@, keepEntry),
                  !.current_account = None]

\* SessionCleanupTool.remove_account_ids, applied to the tool's ledger
remove_account_ids(st, ids) ==
    LET keep(x) == x \notin ids
        keepEntry(e) == e.account_id \notin ids
    IN [st EXCEPT !.login_attempts = SelectSeq(@, keep),
                  !.successful_logins = SelectSeq(@, keep),
                  !.failed_logins = SelectSeq(@, keep),
                  !.processed_posts = SelectSeq(@, keepEntry),
                  !.current_account = IF @ \in ids THEN None ELSE @]

\* ------------------------------------------------- the ledger's operations
\* Each call reads the clock, changes the in-memory record and, for a
\* mutation, writes the record to the file (save_state).  op is the call
\* made last; accounts_to_login and post_tasks hold the results of the
\* scheduler queries made since the last mutation.  The catalogs are loaded
\* once and do not change.

NoOp == [name |-> "none", account |-> None, arg |-> "-", ids |-> {}]

Call(name, account, arg, ids) ==
    /\ pc = "api"
    /\ calls < MaxCalls
    /\ calls' = calls + 1
    /\ op' = [name |-> name, account |-> account, arg |-> arg, ids |-> ids]
    /\ repeated' = (op' = op)

\* a mutation returns nothing: the caller holds no query result any more
NoResult ==
    /\ UNCHANGED catalogVars
    /\ accounts_to_login' = <<>>
    /\ post_tasks' = <<>>

BoolStr(b) == IF b THEN "True" ELSE "False"

MarkLoginAttempt(account_id, success) ==
    /\ Call("mark_login_attempt", account_id, BoolStr(success), {})
    /\ session' = save_state(mark_login_attempt(session, account_id, success), now)
    /\ file' = <<session'>>
    /\ last_outcome' = [last_outcome EXCEPT ![account_id] =
                            IF success THEN "ok" ELSE "fail"]
    /\ NoResult
    /\ UNCHANGED <<extVars, gsession, now, runVars>>

MarkPostProcessed(account_id, post_url) ==
    /\ Call("mark_post_processed", account_id, post_url, {})
    /\ session' = save_state(mark_post_processed(session, account_id, post_url), now)
    /\ file' = <<session'>>
    /\ NoResult
    /\ UNCHANGED <<extVars, gsession, now, last_outcome, runVars>>

SetCurrentAccount(account_id) ==
    /\ Call("set_current_account", account_id, "-", {})
    /\ session' = save_state(set_current_account(session, account_id), now)
    /\ file' = <<session'>>
    /\ NoResult
    /\ UNCHANGED <<extVars, gsession, now, last_outcome, runVars>>

\* the query, marking what it returns as attempted and saving
GetAccountsForLogin_claiming ==
    /\ Call("get_accounts_for_login", None, "-", {})
    /\ accounts_to_login' = get_accounts_for_login(session, accounts)
    /\ session' = save_state([session EXCEPT !.login_attempts =
                                  @ \o accounts_to_login'], now)
    /\ file' = <<session'>>
    /\ UNCHANGED <<extVars, gsession, catalogVars, now, post_tasks, last_outcome, runVars>>

GetAccountsForLogin ==
    /\ Call("get_accounts_for_login", None, "-", {})
    /\ accounts_to_login' = get_accounts_for_login(session, accounts)
    /\ UNCHANGED <<extVars, ledgerVars, catalogVars, now, post_tasks, last_outcome, runVars>>

GetAccountsForPosts ==
    /\ Call("get_accounts_for_posts", None, "-", {})
    /\ post_tasks' = get_accounts_for_posts(session, accounts, post_urls)
    /\ UNCHANGED <<extVars, ledgerVars, catalogVars, now, accounts_to_login, last_outcome,
                   runVars>>

ResetSession ==
    /\ Call("reset_session", None, "-", {})
    /\ session' = save_state(reset_session(now), now)
    /\ file' = <<session'>>
    /\ last_outcome' = [a \in AccountIds |-> "none"]
    /\ NoResult
    /\ UNCHANGED <<extVars, gsession, now, runVars>>

RemoveAccountIds(ids) ==
    /\ Call("remove_account_ids", None, "-", ids)
    /\ session' = save_state(remove_account_ids(session, ids), now)
    /\ file' = <<session'>>
    /\ last_outcome' = [a \in AccountIds |->
                            IF a \in ids THEN "none" ELSE last_outcome[a]]
    /\ NoResult
    /\ UNCHANGED <<extVars, gsession, now, runVars>>

\* time passes
Tick ==
    /\ now < MaxClock
    /\ now' = now + 1
    /\ UNCHANGED <<extVars, ledgerVars, catalogVars, queryVars, apiVars, runVars>>

\* a fresh ledger: no file yet, the record load_state builds
Init ==
    /\ now = 0
    /\ file = <<>>
    /\ session = load_state(file, now)
    /\ gsession = load_state(file, now)
    /\ accounts \in DistinctSeqs(AccountIds)
    /\ post_urls \in DistinctSeqs(PostUrls)
    /\ accounts_to_login = <<>>
    /\ post_tasks = <<>>
    /\ op = NoOp
    /\ calls = 0
    /\ repeated = FALSE
    /\ last_outcome = [a \in AccountIds |-> "none"]
    /\ pc = "api"
    /\ i = 1
    /\ browser = None
    /\ run_no = 0
    /\ recorded = NothingRecorded
    /\ RetryIdle
    /\ removed_counts = NoCounts
    /\ AuthIdle
    /\ open_profiles = {}
    /\ gap = NoGap
    /\ PostIdle

Next ==
    \/ \E a \in AccountIds, b \in BOOLEAN : MarkLoginAttempt(a, b)
    \/ \E a \in AccountIds, u \in PostUrls : MarkPostProcessed(a, u)
    \/ \E a \in AccountIds \cup {None} : SetCurrentAccount(a)
    \/ GetAccountsForLogin
    \/ GetAccountsForPosts
    \/ ResetSession
    \/ \E ids \in SUBSET AccountIds : RemoveAccountIds(ids)
    \/ Tick

Spec == Init /\ [][Next]_vars

\* ------------------------------------------------------- the orchestrator
\* run_enhanced_facebook_automation, one step per statement that touches
\* the ledger, the browser or the page.  Importing facebook_automation
\* builds the module-level SessionState (gsession); the run builds its own
\* (session).  enhanced_login_to_facebook is handed the run's ledger;
\* enhanced_like_comment_post uses the module-level one.

\* the process starts: import facebook_automation
ProcessStart ==
    /\ pc = "exited"
    /\ run_no < MaxRuns
    /\ gsession' = load_state(file, now)
    /\ pc' = "imported"
    /\ UNCHANGED <<extVars, file, session, catalogVars, now, queryVars, apiVars, i, browser,
                   run_no, recorded>>

\* session = SessionState(); accounts_to_login = get_accounts_for_login
RunStart ==
    /\ pc = "imported"
    /\ run_no < MaxRuns
    /\ run_no' = run_no + 1
    /\ session' = load_state(file, now)
    /\ accounts_to_login' = get_accounts_for_login(session', accounts)
    /\ post_tasks' = <<>>
    /\ i' = 1
    /\ pc' = "p1_head"
    /\ recorded' = [recorded EXCEPT !.aborted = {}, !.started = 0]
    /\ UNCHANGED <<extVars, file, gsession, catalogVars, now, apiVars, browser>>

\* phase 1, loop head: current_account is written and saved
P1SetCurrent ==
    /\ pc = "p1_head"
    /\ i <= Len(accounts_to_login)
    /\ session' = save_state([session EXCEPT !.current_account = accounts_to_login[i]],
                             now)
    /\ file' = <<session'>>
    /\ pc' = "p1_launch"
    /\ recorded' = RecordStart(recorded)
    /\ UNCHANGED <<extVars, gsession, catalogVars, now, queryVars, apiVars, i, browser,
                   run_no>>

\* the profile directories that are open in a browser: launching opens the
\* account's directory, leaving the with block and browser.close() close it
Opened(profiles, acc) == profiles \cup {acc}

Closed(profiles, b) == IF b = None THEN profiles ELSE profiles \ {b}

RunFrame == UNCHANGED <<retryVars, toolVars, authVars, postVars>>

\* the delay after task k of n: time.sleep(random.uniform(...)) under
\* `if i < len(...)`
delay_after(k, n, between) == IF k < n THEN between ELSE NoGap

\* launch_persistent_context: works, or raises into the except
P1Launch(ok) ==
    /\ pc = "p1_launch"
    /\ browser' = IF ok THEN accounts_to_login[i] ELSE None
    /\ open_profiles' = IF ok THEN Opened(open_profiles, accounts_to_login[i])
                        ELSE open_profiles
    /\ pc' = IF ok THEN "p1_login" ELSE "p1_close"
    /\ recorded' = IF ok THEN recorded ELSE RecordAbort(recorded, accounts_to_login[i])
    /\ RunFrame
    /\ UNCHANGED <<ledgerVars, catalogVars, now, queryVars, apiVars, i, run_no, gap>>

\* browser.new_page() raises with the profile open: into the except
\* the except clause that records the aborted login as a failed one
P1PageError_recording_failure ==
    /\ pc = "p1_login"
    /\ pc' = "p1_close"
    /\ session' = save_state(mark_login_attempt(session, accounts_to_login[i], FALSE),
                             now)
    /\ file' = <<session'>>
    /\ recorded' = RecordAbort(recorded, accounts_to_login[i])
    /\ UNCHANGED <<extVars, gsession, catalogVars, now, queryVars, apiVars, i, browser,
                   run_no>>

P1PageError ==
    /\ pc = "p1_login"
    /\ pc' = "p1_close"
    /\ recorded' = RecordAbort(recorded, accounts_to_login[i])
    /\ UNCHANGED <<extVars, ledgerVars, catalogVars, now, queryVars, apiVars, i, browser,
                   run_no>>

\* enhanced_login_to_facebook(page, account, password, session): the outcome
\* is recorded in the run's ledger
P1Login(success) ==
    /\ pc = "p1_login"
    /\ session' = save_state(mark_login_attempt(session, accounts_to_login[i], success),
                             now)
    /\ file' = <<session'>>
    /\ recorded' = RecordLogin(recorded, accounts_to_login[i], success)
    /\ pc' = "p1_close"
    /\ UNCHANGED <<extVars, gsession, catalogVars, now, queryVars, apiVars, i, browser,
                   run_no>>

\* the with block is left and finally runs browser.close(); the delay
\* before the next account
P1Close ==
    /\ pc = "p1_close"
    /\ browser' = None
    /\ open_profiles' = Closed(open_profiles, browser)
    /\ gap' = delay_after(i, Len(accounts_to_login), LoginGap)
    /\ i' = i + 1
    /\ pc' = "p1_head"
    /\ RunFrame
    /\ UNCHANGED <<ledgerVars, catalogVars, now, queryVars, apiVars, run_no, recorded>>

\* phase 1 is left one account early
P2Start_skipping_last ==
    /\ pc = "p1_head"
    /\ i >= Len(accounts_to_login)
    /\ post_tasks' = get_accounts_for_posts(session, accounts, post_urls)
    /\ i' = 1
    /\ pc' = "p2_head"
    /\ UNCHANGED <<extVars, ledgerVars, catalogVars, now, accounts_to_login, apiVars, browser,
                   run_no, recorded>>

\* phase 1 is over: post_tasks = session.get_accounts_for_posts(...)
P2Start ==
    /\ pc = "p1_head"
    /\ i > Len(accounts_to_login)
    /\ post_tasks' = get_accounts_for_posts(session, accounts, post_urls)
    /\ i' = 1
    /\ pc' = "p2_head"
    /\ UNCHANGED <<extVars, ledgerVars, catalogVars, now, accounts_to_login, apiVars, browser,
                   run_no, recorded>>

P2SetCurrent ==
    /\ pc = "p2_head"
    /\ i <= Len(post_tasks)
    /\ session' = save_state([session EXCEPT !.current_account = post_tasks[i][1]], now)
    /\ file' = <<session'>>
    /\ pc' = "p2_launch"
    /\ recorded' = RecordStart(recorded)
    /\ UNCHANGED <<extVars, gsession, catalogVars, now, queryVars, apiVars, i, browser,
                   run_no>>

P2Launch(ok) ==
    /\ pc = "p2_launch"
    /\ browser' = IF ok THEN post_tasks[i][1] ELSE None
    /\ open_profiles' = IF ok THEN Opened(open_profiles, post_tasks[i][1])
                        ELSE open_profiles
    /\ pc' = IF ok THEN "p2_check" ELSE "p2_close"
    /\ RunFrame
    /\ UNCHANGED <<ledgerVars, catalogVars, now, queryVars, apiVars, i, run_no,
                   recorded, gap>>

\* the exception of the pair's task that no except clause catches
P2PageError_ending_run ==
    /\ pc = "p2_check"
    /\ pc' = "exited"
    /\ UNCHANGED <<extVars, ledgerVars, catalogVars, now, queryVars, apiVars, i, browser,
                   run_no, recorded>>

\* browser.new_page() or page.goto raises with the profile open
P2PageError ==
    /\ pc = "p2_check"
    /\ pc' = "p2_close"
    /\ UNCHANGED <<extVars, ledgerVars, catalogVars, now, queryVars, apiVars, i, browser,
                   run_no, recorded>>

\* check_login_status(page): what the page shows is the site's choice
P2CheckLogin(logged_in) ==
    /\ pc = "p2_check"
    /\ pc' = IF logged_in THEN "p2_post" ELSE "p2_relogin"
    /\ UNCHANGED <<extVars, ledgerVars, catalogVars, now, queryVars, apiVars, i, browser,
                   run_no, recorded>>

\* the re-login; on failure the pair is skipped (continue)
\* the re-login that recomputes the pending pairs when it fails
P2Relogin_recomputing(success) ==
    /\ pc = "p2_relogin"
    /\ session' = save_state(mark_login_attempt(session, post_tasks[i][1], success), now)
    /\ file' = <<session'>>
    /\ recorded' = RecordLogin(recorded, post_tasks[i][1], success)
    /\ pc' = IF success THEN "p2_post" ELSE "p2_skip"
    /\ post_tasks' = IF success THEN post_tasks
                     ELSE SubSeq(post_tasks, 1, i)
                          \o get_accounts_for_posts(session', accounts, post_urls)
    /\ UNCHANGED <<extVars, gsession, catalogVars, now, accounts_to_login, apiVars, i,
                   browser, run_no>>

P2Relogin(success) ==
    /\ pc = "p2_relogin"
    /\ session' = save_state(mark_login_attempt(session, post_tasks[i][1], success), now)
    /\ file' = <<session'>>
    /\ recorded' = RecordLogin(recorded, post_tasks[i][1], success)
    /\ pc' = IF success THEN "p2_post" ELSE "p2_skip"
    /\ UNCHANGED <<extVars, gsession, catalogVars, now, queryVars, apiVars, i, browser,
                   run_no>>

\* enhanced_like_comment_post(page, post_url, account): on success the pair
\* is recorded through the module-level ledger
P2Post(success) ==
    /\ pc = "p2_post"
    /\ IF success
       THEN /\ gsession' = save_state(mark_post_processed(gsession, post_tasks[i][1],
                                                          post_tasks[i][2]), now)
            /\ file' = <<gsession'>>
       ELSE UNCHANGED <<gsession, file>>
    /\ recorded' = IF success
                   THEN RecordPost(recorded, post_tasks[i][1], post_tasks[i][2])
                   ELSE recorded
    /\ pc' = "p2_close"
    /\ UNCHANGED <<extVars, session, catalogVars, now, queryVars, apiVars, i, browser, run_no>>

\* the pair's task that ends without closing its profile
P2Close_leaving_open ==
    /\ pc = "p2_close"
    /\ browser' = None
    /\ open_profiles' = open_profiles
    /\ gap' = delay_after(i, Len(post_tasks), PostGap)
    /\ i' = i + 1
    /\ pc' = "p2_head"
    /\ RunFrame
    /\ UNCHANGED <<ledgerVars, catalogVars, now, queryVars, apiVars, run_no, recorded>>

\* the with block is left and finally runs browser.close(); the delay
\* before the next pair
P2Close ==
    /\ pc = "p2_close"
    /\ browser' = None
    /\ open_profiles' = Closed(open_profiles, browser)
    /\ gap' = delay_after(i, Len(post_tasks), PostGap)
    /\ i' = i + 1
    /\ pc' = "p2_head"
    /\ RunFrame
    /\ UNCHANGED <<ledgerVars, catalogVars, now, queryVars, apiVars, run_no, recorded>>

\* `continue` after a failed re-login: the with block is left and finally
\* runs browser.close(); the loop goes to the next pair, past the delay
P2Skip ==
    /\ pc = "p2_skip"
    /\ browser' = None
    /\ open_profiles' = Closed(open_profiles, browser)
    /\ gap' = NoGap
    /\ i' = i + 1
    /\ pc' = "p2_head"
    /\ RunFrame
    /\ UNCHANGED <<ledgerVars, catalogVars, now, queryVars, apiVars, run_no, recorded>>

\* the final summary; main returns and the process ends
RunEnd ==
    /\ pc = "p2_head"
    /\ i > Len(post_tasks)
    /\ pc' = "exited"
    /\ UNCHANGED <<extVars, ledgerVars, catalogVars, now, queryVars, apiVars, i, browser,
                   run_no, recorded>>

\* KeyboardInterrupt (the operator's Ctrl-C) at any statement of the run: no
\* except Exception clause catches it, the finally clause closes the
\* browser, main's handler prints the summary and the process ends
Interrupt ==
    /\ pc \notin {"exited", "imported", "api"}
    /\ browser' = None
    /\ open_profiles' = Closed(open_profiles, browser)
    /\ pc' = "exited"
    /\ RunFrame
    /\ UNCHANGED <<ledgerVars, catalogVars, now, queryVars, apiVars, i, run_no,
                   recorded, gap>>

InitRun ==
    /\ now = 0
    /\ file = <<>>
    /\ session = load_state(file, now)
    /\ gsession = load_state(file, now)
    /\ accounts \in DistinctSeqs(AccountIds)
    /\ post_urls \in DistinctSeqs(PostUrls)
    /\ accounts_to_login = <<>>
    /\ post_tasks = <<>>
    /\ op = NoOp
    /\ calls = 0
    /\ repeated = FALSE
    /\ last_outcome = [a \in AccountIds |-> "none"]
    /\ pc = "exited"
    /\ i = 1
    /\ browser = None
    /\ run_no = 0
    /\ recorded = NothingRecorded
    /\ RetryIdle
    /\ removed_counts = NoCounts
    /\ AuthIdle
    /\ open_profiles = {}
    /\ gap = NoGap
    /\ PostIdle

NextRun ==
    \/ ProcessStart
    \/ RunStart
    \/ P1SetCurrent
    \/ \E ok \in BOOLEAN : P1Launch(ok)
    \/ \E b \in BOOLEAN : P1Login(b)
    \/ P1PageError
    \/ P1Close
    \/ P2Start
    \/ P2SetCurrent
    \/ \E ok \in BOOLEAN : P2Launch(ok)
    \/ \E b \in BOOLEAN : P2CheckLogin(b)
    \/ P2PageError
    \/ \E b \in BOOLEAN : P2Relogin(b)
    \/ \E b \in BOOLEAN : P2Post(b)
    \/ P2Close
    \/ P2Skip
    \/ RunEnd
    \/ Interrupt
    \/ Tick

SpecRun == InitRun /\ [][NextRun]_vars

\* ------------------------------------------ the ledger on failing storage
\* The same calls, with the outcome of the write made by save_state: the
\* record is written; open() raises and the file stays as it was; or the
\* file is opened (and so truncated) and json.dump raises before the record
\* is complete.  save_state logs the exception and returns.  The cleanup
\* tool works on the SessionState it builds at start.

WriteOutcomes == {"written", "refused", "torn"}

\* the file after the try block of save_state
write(f, st, wrote) ==
    CASE wrote = "written" -> <<st>>
      [] wrote = "refused" -> f
      [] wrote = "torn" -> <<Corrupt>>

StoreCall(name, account, arg, ids) ==
    /\ pc = "store"
    /\ calls < MaxStoreCalls
    /\ calls' = calls + 1
    /\ op' = [name |-> name, account |-> account, arg |-> arg, ids |-> ids]
    /\ repeated' = (op' = op)

StoreFrame ==
    /\ NoResult
    /\ UNCHANGED <<gsession, now, last_outcome, runVars, retryVars, restVars>>

\* SessionState(): the record is loaded from the file, or built afresh
Construct ==
    /\ StoreCall("__init__", None, "-", {})
    /\ session' = load_state(file, now)
    /\ UNCHANGED <<file, toolVars>>
    /\ StoreFrame

MarkLoginAttempt_io(account_id, success, wrote) ==
    /\ StoreCall("mark_login_attempt", account_id, BoolStr(success), {})
    /\ session' = save_state(mark_login_attempt(session, account_id, success), now)
    /\ file' = write(file, session', wrote)
    /\ UNCHANGED toolVars
    /\ StoreFrame

MarkPostProcessed_io(account_id, post_url, wrote) ==
    /\ StoreCall("mark_post_processed", account_id, post_url, {})
    /\ session' = save_state(mark_post_processed(session, account_id, post_url), now)
    /\ file' = write(file, session', wrote)
    /\ UNCHANGED toolVars
    /\ StoreFrame

SetCurrentAccount_io(account_id, wrote) ==
    /\ StoreCall("set_current_account", account_id, "-", {})
    /\ session' = save_state(set_current_account(session, account_id), now)
    /\ file' = write(file, session', wrote)
    /\ UNCHANGED toolVars
    /\ StoreFrame

ResetSession_io(wrote) ==
    /\ StoreCall("reset_session", None, "-", {})
    /\ session' = save_state(reset_session(now), now)
    /\ file' = write(file, session', wrote)
    /\ UNCHANGED toolVars
    /\ StoreFrame

\* the removed_counts dict remove_account_ids returns: for each list, its
\* length before minus its length after the filtering
count_removed(st, ids) ==
    LET after == remove_account_ids(st, ids)
    IN [login_attempts |-> Len(st.login_attempts) - Len(after.login_attempts),
        successful_logins |->
            Len(st.successful_logins) - Len(after.successful_logins),
        failed_logins |-> Len(st.failed_logins) - Len(after.failed_logins),
        processed_posts |-> Len(st.processed_posts) - Len(after.processed_posts),
        current_account_reset |-> IF st.current_account \in ids THEN 1 ELSE 0]

\* SessionCleanupTool.remove_account_ids(account_ids, dry_run): the lists of
\* the tool's ledger are filtered and last_update is stamped in either mode;
\* only save_state is skipped in a dry run
RemoveAccountIds_tool(ids, dry_run, wrote) ==
    /\ StoreCall("remove_account_ids", None, BoolStr(dry_run), ids)
    /\ session' = [remove_account_ids(session, ids) EXCEPT !.last_update = now]
    /\ file' = IF dry_run THEN file ELSE write(file, save_state(session', now), wrote)
    /\ removed_counts' = count_removed(session, ids)
    /\ StoreFrame

\* SessionCleanupTool.reset_all_session_data(dry_run): reset_session is
\* called (and saves) in either mode; a dry run then puts the copy of the
\* old record back into the tool's ledger
ResetAllSessionData(dry_run, wrote) ==
    /\ StoreCall("reset_all_session_data", None, BoolStr(dry_run), {})
    /\ session' = IF dry_run THEN session ELSE save_state(reset_session(now), now)
    /\ file' = write(file, save_state(reset_session(now), now), wrote)
    /\ UNCHANGED toolVars
    /\ StoreFrame

InitStore ==
    /\ now = 0
    /\ file = <<>>
    /\ session = load_state(file, now)
    /\ gsession = load_state(file, now)
    /\ accounts = <<>>
    /\ post_urls = <<>>
    /\ accounts_to_login = <<>>
    /\ post_tasks = <<>>
    /\ op = NoOp
    /\ calls = 0
    /\ repeated = FALSE
    /\ last_outcome = [a \in AccountIds |-> "none"]
    /\ pc = "store"
    /\ i = 1
    /\ browser = None
    /\ run_no = 0
    /\ recorded = NothingRecorded
    /\ RetryIdle
    /\ removed_counts = NoCounts
    /\ AuthIdle
    /\ open_profiles = {}
    /\ gap = NoGap
    /\ PostIdle

NextStore ==
    \/ Construct
    \/ \E a \in AccountIds, b \in BOOLEAN, w \in WriteOutcomes :
           MarkLoginAttempt_io(a, b, w)
    \/ \E a \in AccountIds, u \in PostUrls, w \in WriteOutcomes :
           MarkPostProcessed_io(a, u, w)
    \/ \E a \in AccountIds \cup {None}, w \in WriteOutcomes :
           SetCurrentAccount_io(a, w)
    \/ \E w \in WriteOutcomes : ResetSession_io(w)
    \/ \E ids \in SUBSET AccountIds : RemoveAccountIds_tool(ids, TRUE, "written")
    \/ \E ids \in SUBSET AccountIds, w \in WriteOutcomes :
           RemoveAccountIds_tool(ids, FALSE, w)
    \/ \E d \in BOOLEAN, w \in WriteOutcomes : ResetAllSessionData(d, w)
    \/ Tick

SpecStore == InitStore /\ [][NextStore]_vars

\* ------------------------------------------------------ retry_with_backoff
\* One call of retry_with_backoff(func, max_retries, base_delay).  func is
\* the caller's operation: each invocation returns or raises, as the site
\* decides.  Times are in ticks; the jitter random.uniform(0, JitterMax) is
\* any whole number of ticks of that interval.

DefaultMaxRetries == 3
DefaultBaseDelay == 2

Jitters == 0..(JitterMax * TicksPerSecond)

RECURSIVE Pow2(_)
Pow2(k) == IF k = 0 THEN 1 ELSE 2 * Pow2(k - 1)

\* the delay computed with 2 * attempt in place of 2 ** attempt
backoff_delay_product(base, k, jitter) ==
    base * (2 * k) * TicksPerSecond + jitter

\* delay = base_delay * (2 ** attempt) + random.uniform(0, 2)
backoff_delay(base, k, jitter) ==
    base * Pow2(k) * TicksPerSecond + jitter

\* the loop body that sleeps once more before it returns the result
RetryAttempt_sleep_then_return(ok, jitter) ==
    /\ rstatus = "running"
    /\ attempt < max_retries
    /\ invoked' = invoked + 1
    /\ IF ok
       THEN /\ rstatus' = "returned"
            /\ result' = invoked'
            /\ delay' = backoff_delay(base_delay, attempt, jitter)
            /\ sleeps' = sleeps + 1
            /\ slept' = slept + delay'
            /\ UNCHANGED <<attempt, error>>
       ELSE IF attempt = max_retries - 1
       THEN /\ rstatus' = "raised"
            /\ error' = invoked'
            /\ UNCHANGED <<attempt, delay, sleeps, slept, result>>
       ELSE /\ delay' = backoff_delay(base_delay, attempt, jitter)
            /\ sleeps' = sleeps + 1
            /\ slept' = slept + delay'
            /\ attempt' = attempt + 1
            /\ UNCHANGED <<rstatus, error, result>>
    /\ UNCHANGED <<max_retries, base_delay, toolVars, restVars, ledgerVars,
                   catalogVars, now,
                   queryVars, apiVars, runVars>>

\* the loop body that sleeps before it re-raises the last error
RetryAttempt_sleep_then_raise(ok, jitter) ==
    /\ rstatus = "running"
    /\ attempt < max_retries
    /\ invoked' = invoked + 1
    /\ IF ok
       THEN /\ rstatus' = "returned"
            /\ result' = invoked'
            /\ UNCHANGED <<attempt, delay, sleeps, slept, error>>
       ELSE /\ delay' = backoff_delay(base_delay, attempt, jitter)
            /\ sleeps' = sleeps + 1
            /\ slept' = slept + delay'
            /\ IF attempt = max_retries - 1
               THEN /\ rstatus' = "raised"
                    /\ error' = invoked'
                    /\ UNCHANGED <<attempt, result>>
               ELSE /\ attempt' = attempt + 1
                    /\ UNCHANGED <<rstatus, error, result>>
    /\ UNCHANGED <<max_retries, base_delay, toolVars, restVars, ledgerVars,
                   catalogVars, now,
                   queryVars, apiVars, runVars>>

\* one pass of the loop body: func is invoked; it returns (ok), or it raises
\* and the loop re-raises on the last attempt, else sleeps and goes on
RetryAttempt(ok, jitter) ==
    /\ rstatus = "running"
    /\ attempt < max_retries
    /\ invoked' = invoked + 1
    /\ IF ok
       THEN /\ rstatus' = "returned"
            /\ result' = invoked'
            /\ UNCHANGED <<attempt, delay, sleeps, slept, error>>
       ELSE IF attempt = max_retries - 1
       THEN /\ rstatus' = "raised"
            /\ error' = invoked'
            /\ UNCHANGED <<attempt, delay, sleeps, slept, result>>
       ELSE /\ delay' = backoff_delay(base_delay, attempt, jitter)
            /\ sleeps' = sleeps + 1
            /\ slept' = slept + delay'
            /\ attempt' = attempt + 1
            /\ UNCHANGED <<rstatus, error, result>>
    /\ UNCHANGED <<max_retries, base_delay, toolVars, restVars, ledgerVars,
                   catalogVars, now,
                   queryVars, apiVars, runVars>>

\* range(max_retries) is exhausted without a return or a raise: the function
\* falls off its end and returns None (max_retries = 0 only)
RetryFallThrough ==
    /\ rstatus = "running"
    /\ attempt >= max_retries
    /\ rstatus' = "returned"
    /\ UNCHANGED <<max_retries, base_delay, attempt, delay, invoked, sleeps, slept,
                   error, result, toolVars, restVars, ledgerVars, catalogVars, now,
                   queryVars,
                   apiVars, runVars>>

\* the call is made: any arguments within the bounds
InitRetry ==
    /\ max_retries \in 0..MaxRetries
    /\ base_delay \in 0..MaxBaseDelay
    /\ attempt = 0
    /\ delay = 0
    /\ invoked = 0
    /\ sleeps = 0
    /\ slept = 0
    /\ rstatus = "running"
    /\ error = 0
    /\ result = 0
    /\ removed_counts = NoCounts
    /\ AuthIdle
    /\ open_profiles = {}
    /\ gap = NoGap
    /\ PostIdle
    /\ now = 0
    /\ file = <<>>
    /\ session = load_state(file, now)
    /\ gsession = load_state(file, now)
    /\ accounts = <<>>
    /\ post_urls = <<>>
    /\ accounts_to_login = <<>>
    /\ post_tasks = <<>>
    /\ op = NoOp
    /\ calls = 0
    /\ repeated = FALSE
    /\ last_outcome = [a \in AccountIds |-> "none"]
    /\ pc = "retry"
    /\ i = 1
    /\ browser = None
    /\ run_no = 0
    /\ recorded = NothingRecorded

NextRetry ==
    \/ \E ok \in BOOLEAN, jitter \in Jitters : RetryAttempt(ok, jitter)
    \/ RetryFallThrough

SpecRetry == InitRetry /\ [][NextRetry]_vars

\* ---------------------------------------------- enhanced_login_to_facebook
\* One call of enhanced_login_to_facebook for the account Username.  The
\* repository holds two versions: facebook_automation's, which the
\* orchestrator calls in phase 1 and for the re-login of phase 2, and
\* login_handler's, which takes the flag from_post.  login_attempt is the
\* operation handed to retry_with_backoff; what the page shows at each step
\* (authenticated, challenge, form, alert) is the site's choice, what the
\* operator types at a prompt is the operator's.

Username == "a1"

DefaultMaxWait == 120
CheckInterval == 3

ChallengeKinds == {"NONE", "CHECKPOINT", "CAPTCHA", "TWO_FACTOR"}
Answers == {"done", "skip"}

\* the exception classes an `except Exception` clause catches (exceptions.py:
\* both derive from Exception; "Error" is any exception of the driver)
ExceptionClasses == {"LoginFailedException", "SecurityChallengeException", "Error"}

Handled(value, asked, skip) ==
    [raises |-> "none", value |-> value, prompted |-> asked, skipped |-> skip]

\* a resolver that asks the operator about a captcha whatever from_post is
handle_facebook_security_challenges_asking(fp, kind, answer, check_raises) ==
    IF check_raises THEN Handled(FALSE, FALSE, FALSE)
    ELSE IF kind = "NONE" THEN Handled(FALSE, FALSE, FALSE)
    ELSE IF kind = "CAPTCHA" THEN Handled(TRUE, TRUE, FALSE)
    ELSE IF fp THEN Handled(FALSE, FALSE, FALSE)
    ELSE IF kind = "CHECKPOINT" /\ answer = "skip" THEN Handled(FALSE, TRUE, TRUE)
    ELSE Handled(TRUE, TRUE, FALSE)

\* handle_facebook_security_challenges(page, account, from_post): what it
\* returns or raises, whether it called input() and whether the operator
\* answered skip.  The body runs inside try / except Exception: return False.
handle_facebook_security_challenges(fp, kind, answer, check_raises) ==
    LET body ==
            IF check_raises
            THEN [Handled(FALSE, FALSE, FALSE) EXCEPT !.raises = "Error"]
            ELSE IF kind = "NONE" THEN Handled(FALSE, FALSE, FALSE)
            ELSE IF fp THEN Handled(FALSE, FALSE, FALSE)
            ELSE IF kind = "CHECKPOINT" /\ answer = "skip"
            THEN [Handled(FALSE, TRUE, TRUE) EXCEPT
                      !.raises = "SecurityChallengeException"]
            ELSE Handled(TRUE, TRUE, FALSE)
    IN IF body.raises \in ExceptionClasses
       THEN [body EXCEPT !.raises = "none", !.value = FALSE]
       ELSE body

\* the alert check of the poll loop: the exception that leaves the loop, if
\* any.  login_handler raises inside its own try / except Exception.
alert_check(v, alert) ==
    LET raised == IF alert THEN "LoginFailedException" ELSE "none"
    IN IF v = "login_handler" /\ raised \in ExceptionClasses THEN "none" ELSE raised

AuthFrame ==
    UNCHANGED <<gsession, catalogVars, now, queryVars, apiVars, runVars, toolVars,
                envVars, postVars, variant, caller, from_post, max_wait,
                auth_return>>

AttemptFrame ==
    UNCHANGED <<max_retries, base_delay, attempt, delay, invoked, sleeps, slept,
                rstatus, error, result>>

\* login_attempt returns True or raises
EndAttempt(outcome) ==
    /\ apc' = "attempt_done"
    /\ aresult' = outcome

\* START and CHECK_ALREADY_IN: page.goto, then check_login_status
CheckAlreadyIn(goto_ok, logged_in) ==
    /\ apc = "start"
    /\ rstatus = "running"
    /\ attempt < max_retries
    /\ IF ~goto_ok THEN EndAttempt("Error")
       ELSE IF logged_in THEN EndAttempt("True")
       ELSE apc' = "challenge_check" /\ UNCHANGED aresult
    /\ UNCHANGED <<ledgerVars, waited, polls, filled, detected, skipped, seen,
                   marks, prompted>>
    /\ AttemptFrame
    /\ AuthFrame

\* CHALLENGE_CHECK: the resolver is called before the form is looked for
ChallengeCheck(kind, answer, check_raises, logged_in) ==
    /\ apc = "challenge_check"
    /\ LET r == handle_facebook_security_challenges(from_post, kind, answer,
                                                    check_raises)
       IN /\ detected' = IF check_raises THEN "NONE" ELSE kind
          /\ prompted' = (prompted \/ r.prompted)
          /\ skipped' = r.skipped
          /\ IF r.raises # "none"
             THEN /\ EndAttempt(r.raises)
                  /\ UNCHANGED <<ledgerVars, marks>>
             ELSE IF variant = "login_handler" /\ from_post /\ r.value
             THEN /\ session' = save_state(mark_login_attempt(session, Username,
                                                              FALSE), now)
                  /\ file' = <<session'>>
                  /\ marks' = Append(marks, FALSE)
                  /\ EndAttempt("LoginFailedException: challenge")
                  /\ UNCHANGED gsession
             ELSE /\ IF r.value /\ logged_in THEN EndAttempt("True")
                     ELSE apc' = "form" /\ UNCHANGED aresult
                  /\ UNCHANGED <<ledgerVars, marks>>
    /\ UNCHANGED <<waited, polls, filled, seen>>
    /\ AttemptFrame
    /\ UNCHANGED <<catalogVars, now, queryVars, apiVars, runVars, toolVars, envVars,
                   postVars,
                   variant, caller, from_post, max_wait, auth_return>>

\* FORM_FILL and SUBMIT
FormFill(form_visible, submit_ok) ==
    /\ apc = "form"
    /\ IF ~form_visible
       THEN /\ EndAttempt("LoginFailedException: form not found")
            /\ UNCHANGED filled
       ELSE /\ filled' = TRUE
            /\ IF submit_ok THEN apc' = "await" /\ UNCHANGED aresult
               ELSE EndAttempt("Error")
    /\ waited' = 0
    /\ polls' = 0
    /\ UNCHANGED <<ledgerVars, detected, skipped, seen, marks, prompted>>
    /\ AttemptFrame
    /\ AuthFrame

\* AWAIT_RESULT: one iteration of the poll loop
Poll(kind, answer, check_raises, logged_in, alert) ==
    /\ apc = "await"
    /\ waited < max_wait
    /\ polls' = polls + 1
    /\ seen' = [logged_in |-> logged_in, alert |-> alert]
    /\ LET r == handle_facebook_security_challenges(from_post, kind, answer,
                                                    check_raises)
           a == alert_check(variant, alert)
       IN /\ prompted' = (prompted \/ r.prompted)
          /\ skipped' = (skipped \/ r.skipped)
          /\ IF r.raises # "none" THEN EndAttempt(r.raises) /\ UNCHANGED waited
             ELSE IF logged_in THEN EndAttempt("True") /\ UNCHANGED waited
             ELSE IF a # "none"
             THEN EndAttempt("LoginFailedException: Login error") /\ UNCHANGED waited
             ELSE /\ waited' = waited + CheckInterval
                  /\ UNCHANGED <<apc, aresult>>
    /\ UNCHANGED <<ledgerVars, filled, detected, marks>>
    /\ AttemptFrame
    /\ AuthFrame

\* the poll loop left one iteration early
PollTimeout_early ==
    /\ apc = "await"
    /\ waited + CheckInterval >= max_wait
    /\ EndAttempt("LoginFailedException: timeout")
    /\ UNCHANGED <<ledgerVars, waited, polls, filled, detected, skipped, seen,
                   marks, prompted>>
    /\ AttemptFrame
    /\ AuthFrame

\* the poll loop is left: waited has reached max_wait
PollTimeout ==
    /\ apc = "await"
    /\ waited >= max_wait
    /\ EndAttempt("LoginFailedException: timeout")
    /\ UNCHANGED <<ledgerVars, waited, polls, filled, detected, skipped, seen,
                   marks, prompted>>
    /\ AttemptFrame
    /\ AuthFrame

\* retry_with_backoff, the rest of the loop body once login_attempt has
\* returned or raised
AuthRetry(jitter) ==
    /\ apc = "attempt_done"
    /\ rstatus = "running"
    /\ invoked' = invoked + 1
    /\ IF aresult = "True"
       THEN /\ rstatus' = "returned"
            /\ apc' = "retry_done"
            /\ result' = invoked'
            /\ UNCHANGED <<attempt, delay, sleeps, slept, error, aresult, waited,
                           polls, filled, detected, skipped, seen>>
       ELSE IF attempt = max_retries - 1
       THEN /\ rstatus' = "raised"
            /\ error' = invoked'
            /\ apc' = "retry_done"
            /\ UNCHANGED <<attempt, delay, sleeps, slept, aresult, waited, polls,
                           filled, detected, skipped, seen, result>>
       ELSE /\ delay' = backoff_delay(base_delay, attempt, jitter)
            /\ sleeps' = sleeps + 1
            /\ slept' = slept + delay'
            /\ attempt' = attempt + 1
            /\ apc' = "start"
            /\ aresult' = "none"
            /\ waited' = 0
            /\ polls' = 0
            /\ filled' = FALSE
            /\ detected' = "NONE"
            /\ skipped' = FALSE
            /\ seen' = NoPoll
            /\ UNCHANGED <<rstatus, error, result>>
    /\ UNCHANGED <<ledgerVars, marks, prompted, max_retries, base_delay>>
    /\ AuthFrame

\* range(max_retries) is empty: retry_with_backoff returns None
AuthNoAttempt ==
    /\ apc = "start"
    /\ rstatus = "running"
    /\ attempt >= max_retries
    /\ rstatus' = "returned"
    /\ aresult' = "None"
    /\ apc' = "retry_done"
    /\ UNCHANGED <<ledgerVars, waited, polls, filled, detected, skipped, seen,
                   marks, prompted, max_retries, base_delay, attempt, delay,
                   invoked, sleeps, slept, error, result>>
    /\ AuthFrame

\* the outcome is reported to the ledger.  facebook_automation's version has
\* no else branch: a falsy result of retry_with_backoff records nothing.
AuthEnd ==
    /\ apc = "retry_done"
    /\ apc' = "done"
    /\ LET success == (rstatus = "returned" /\ aresult = "True")
           silent == (rstatus = "returned" /\ ~success
                         /\ variant = "facebook_automation")
       IN /\ IF silent
             THEN UNCHANGED <<session, file, marks>>
             ELSE /\ session' = save_state(mark_login_attempt(session, Username,
                                                              success), now)
                  /\ file' = <<session'>>
                  /\ marks' = Append(marks, success)
          /\ auth_return' = IF silent THEN "None" ELSE BoolStr(success)
    /\ UNCHANGED <<gsession, waited, polls, filled, detected, skipped, seen,
                   prompted, aresult, retryVars>>
    /\ UNCHANGED <<catalogVars, now, queryVars, apiVars, runVars, toolVars, envVars,
                   postVars,
                   variant, caller, from_post, max_wait>>

\* the call sites: the orchestrator calls facebook_automation's version in
\* both phases; login_handler's version is called with either flag
CallSites ==
    {[variant |-> "facebook_automation", caller |-> "phase1", from_post |-> FALSE],
     [variant |-> "facebook_automation", caller |-> "phase2", from_post |-> FALSE],
     [variant |-> "login_handler", caller |-> "direct", from_post |-> FALSE],
     [variant |-> "login_handler", caller |-> "direct", from_post |-> TRUE]}

InitAuth ==
    /\ \E c \in CallSites :
           /\ variant = c.variant
           /\ caller = c.caller
           /\ from_post = c.from_post
    /\ max_wait \in (0..MaxWait) \cup {DefaultMaxWait}
    /\ max_retries \in 0..MaxAttempts
    /\ base_delay = DefaultBaseDelay
    /\ attempt = 0
    /\ delay = 0
    /\ invoked = 0
    /\ sleeps = 0
    /\ slept = 0
    /\ rstatus = "running"
    /\ error = 0
    /\ result = 0
    /\ apc = "start"
    /\ aresult = "none"
    /\ waited = 0
    /\ polls = 0
    /\ filled = FALSE
    /\ detected = "NONE"
    /\ skipped = FALSE
    /\ seen = NoPoll
    /\ marks = <<>>
    /\ prompted = FALSE
    /\ auth_return = "none"
    /\ open_profiles = {Username}
    /\ gap = NoGap
    /\ PostIdle
    /\ removed_counts = NoCounts
    /\ now = 0
    /\ session = fresh_state(now)
    /\ file = <<session>>
    /\ gsession = session
    /\ accounts = <<Username>>
    /\ post_urls = <<>>
    /\ accounts_to_login = <<>>
    /\ post_tasks = <<>>
    /\ op = NoOp
    /\ calls = 0
    /\ repeated = FALSE
    /\ last_outcome = [a \in AccountIds |-> "none"]
    /\ pc = "auth"
    /\ i = 1
    /\ browser = Username
    /\ run_no = 0
    /\ recorded = NothingRecorded

NextAuth ==
    \/ \E g, l \in BOOLEAN : CheckAlreadyIn(g, l)
    \/ \E k \in ChallengeKinds, a \in Answers, e, l \in BOOLEAN :
           ChallengeCheck(k, a, e, l)
    \/ \E v, s \in BOOLEAN : FormFill(v, s)
    \/ \E k \in ChallengeKinds, a \in Answers, e, l, al \in BOOLEAN :
           Poll(k, a, e, l, al)
    \/ PollTimeout
    \/ \E j \in Jitters : AuthRetry(j)
    \/ AuthNoAttempt
    \/ AuthEnd

SpecAuth == InitAuth /\ [][NextAuth]_vars

\* ---------------------------------------------- enhanced_like_comment_post
\* One call of enhanced_like_comment_post for the pair post_tasks[1].  There
\* are two versions: facebook_automation's, which the orchestrator calls and
\* which records the pair through the module-level ledger, and
\* post_interaction's, which only returns the outcome.  like_attempt and
\* comment_attempt are handed to retry_with_backoff one after the other;
\* whether a selector matches is the page's choice.

\* max_retries of the two retry_with_backoff calls
sub_budget(v) == IF v = "facebook_automation" THEN 2 ELSE 3

\* how one invocation of a sub-action can end: it returns True when a
\* selector matched and was used, False when none did (an exception inside
\* the selector loop only moves on to the next selector); comment_attempt
\* raises before its loop when random.choice is given an empty list
Outcomes(sub, empty) ==
    IF sub = "comment" /\ empty THEN {"raise"} ELSE {"True", "False"}

PostFrame ==
    UNCHANGED <<session, catalogVars, now, queryVars, apiVars, runVars, toolVars,
                authVars, envVars, comments_empty>>

\* retry_with_backoff is entered
StartLoop ==
    /\ max_retries' = sub_budget(variant)
    /\ base_delay' = DefaultBaseDelay
    /\ attempt' = 0
    /\ delay' = 0
    /\ invoked' = 0
    /\ sleeps' = 0
    /\ slept' = 0
    /\ rstatus' = "running"
    /\ error' = 0
    /\ result' = 0

\* page.goto(post_url): raises into the outer except, or the like loop starts
PostGoto(ok) ==
    /\ ppc = "goto"
    /\ IF ok
       THEN /\ ppc' = "like"
            /\ StartLoop
            /\ UNCHANGED post_return
       ELSE /\ ppc' = "done"
            /\ post_return' = "False"
            /\ UNCHANGED retryVars
    /\ UNCHANGED <<file, gsession, like_success, comment_success, tries>>
    /\ PostFrame

\* one pass of the loop body of retry_with_backoff around like_attempt or
\* comment_attempt: `return func()` returns whatever func returned
SubAttempt(outcome, jitter) ==
    /\ ppc \in {"like", "comment"}
    /\ rstatus = "running"
    /\ attempt < max_retries
    /\ outcome \in Outcomes(ppc, comments_empty)
    /\ invoked' = invoked + 1
    /\ tries' = [tries EXCEPT ![ppc] = @ + 1]
    /\ IF outcome # "raise"
       THEN /\ rstatus' = "returned"
            /\ result' = invoked'
            /\ like_success' = IF ppc = "like" THEN outcome ELSE like_success
            /\ comment_success' = IF ppc = "comment" THEN outcome ELSE comment_success
            /\ UNCHANGED <<attempt, delay, sleeps, slept, error>>
       ELSE IF attempt = max_retries - 1
       THEN /\ rstatus' = "raised"
            /\ error' = invoked'
            /\ UNCHANGED <<attempt, delay, sleeps, slept, result, like_success,
                           comment_success>>
       ELSE /\ delay' = backoff_delay(base_delay, attempt, jitter)
            /\ sleeps' = sleeps + 1
            /\ slept' = slept + delay'
            /\ attempt' = attempt + 1
            /\ UNCHANGED <<rstatus, error, result, like_success, comment_success>>
    /\ UNCHANGED <<file, gsession, max_retries, base_delay, ppc, post_return>>
    /\ PostFrame

\* like_success is assigned; the comment loop starts
StartComment ==
    /\ ppc = "like"
    /\ rstatus = "returned"
    /\ ppc' = "comment"
    /\ StartLoop
    /\ UNCHANGED <<file, gsession, like_success, comment_success, tries, post_return>>
    /\ PostFrame

\* retry_with_backoff raised: the outer except returns False
PostRaised ==
    /\ ppc \in {"like", "comment"}
    /\ rstatus = "raised"
    /\ ppc' = "done"
    /\ post_return' = "False"
    /\ UNCHANGED <<file, gsession, retryVars, like_success, comment_success, tries>>
    /\ PostFrame

\* `if like_success or comment_success`: the pair is recorded (by
\* facebook_automation's version) and True is returned, else False
PostResult ==
    /\ ppc = "comment"
    /\ rstatus = "returned"
    /\ ppc' = "done"
    /\ LET success == like_success = "True" \/ comment_success = "True"
       IN /\ post_return' = BoolStr(success)
          /\ IF success /\ variant = "facebook_automation"
             THEN /\ gsession' = save_state(mark_post_processed(gsession,
                                     post_tasks[1][1], post_tasks[1][2]), now)
                  /\ file' = <<gsession'>>
             ELSE UNCHANGED <<file, gsession>>
    /\ UNCHANGED <<retryVars, like_success, comment_success, tries>>
    /\ PostFrame

\* the ledger in which every account of the catalog is logged in
AllLoggedIn(t) ==
    save_state(mark_login_attempt(mark_login_attempt(fresh_state(t), "a1", TRUE),
                                  "a2", TRUE), t)

InitPost ==
    /\ variant \in {"facebook_automation", "post_interaction"}
    /\ caller = "none"
    /\ from_post = FALSE
    /\ max_wait = 0
    /\ apc = "idle"
    /\ aresult = "none"
    /\ waited = 0
    /\ polls = 0
    /\ filled = FALSE
    /\ detected = "NONE"
    /\ skipped = FALSE
    /\ seen = NoPoll
    /\ marks = <<>>
    /\ prompted = FALSE
    /\ auth_return = "none"
    /\ ppc = "goto"
    /\ comments_empty \in BOOLEAN
    /\ like_success = "none"
    /\ comment_success = "none"
    /\ tries = NoTries
    /\ post_return = "none"
    /\ RetryIdle
    /\ removed_counts = NoCounts
    /\ now = 0
    /\ session = AllLoggedIn(now)
    /\ file = <<session>>
    /\ gsession \in {session, fresh_state(now)}
    /\ accounts = <<"a1", "a2">>
    /\ post_urls = <<"r1", "r2">>
    /\ accounts_to_login = <<>>
    /\ post_tasks \in {<<<<a, u>>>> : a \in AccountIds, u \in PostUrls}
    /\ op = NoOp
    /\ calls = 0
    /\ repeated = FALSE
    /\ last_outcome = [a \in AccountIds |-> "none"]
    /\ pc = "post"
    /\ i = 1
    /\ browser = post_tasks[1][1]
    /\ open_profiles = {post_tasks[1][1]}
    /\ gap = NoGap
    /\ run_no = 0
    /\ recorded = NothingRecorded

NextPost ==
    \/ \E ok \in BOOLEAN : PostGoto(ok)
    \/ \E o \in {"True", "False", "raise"}, j \in Jitters : SubAttempt(o, j)
    \/ StartComment
    \/ PostRaised
    \/ PostResult

SpecPost == InitPost /\ [][NextPost]_vars

\* ------------------------- run_enhanced_facebook_automation_with_recovery
\* The loop of run_enhanced_facebook_automation_with_recovery over its own
\* ledger (session).  process_single_login and process_single_post are one
\* step each: a KeyboardInterrupt inside one of them leaves the ledgers as
\* one of their outcomes does, so the interrupt is taken between the tasks.
\* run_no counts the passes of the loop.

RecFrame == UNCHANGED <<catalogVars, now, apiVars, retryVars, toolVars, authVars, postVars>>

\* the top of the while loop: both queries, and the break when there is
\* nothing to do
RecTop ==
    /\ pc = "rec_top"
    /\ accounts_to_login' = get_accounts_for_login(session, accounts)
    /\ post_tasks' = get_accounts_for_posts(session, accounts, post_urls)
    /\ IF accounts_to_login' = <<>> /\ post_tasks' = <<>>
       THEN /\ pc' = "rec_returned"
            /\ UNCHANGED run_no
       ELSE /\ run_no < MaxPasses
            /\ pc' = "rec_login"
            /\ run_no' = run_no + 1
    /\ i' = 1
    /\ gap' = NoGap
    /\ UNCHANGED <<ledgerVars, browser, recorded, open_profiles>>
    /\ RecFrame

\* process_single_login(account, session) inside the login loop: the
\* current account is saved, the profile is launched and closed again;
\* either the login records its outcome and the delay follows, or an
\* exception ends the task before that and the loop continues
RecLogin(outcome) ==
    /\ pc = "rec_login"
    /\ i <= Len(accounts_to_login)
    /\ LET acc == accounts_to_login[i]
           cur == save_state([session EXCEPT !.current_account = acc], now)
       IN IF outcome = "error"
          THEN /\ session' = cur
               /\ recorded' = RecordAbort(recorded, acc)
               /\ gap' = NoGap
          ELSE /\ session' = save_state(mark_login_attempt(cur, acc, outcome = "True"),
                                        now)
               /\ recorded' = RecordLogin(recorded, acc, outcome = "True")
               /\ gap' = LoginGap
    /\ file' = <<session'>>
    /\ i' = i + 1
    /\ browser' = None
    /\ open_profiles' = Closed(Opened(open_profiles, accounts_to_login[i]),
                               accounts_to_login[i])
    /\ UNCHANGED <<gsession, queryVars, pc, run_no>>
    /\ RecFrame

\* the login loop is over: post_tasks is computed again
RecRefresh ==
    /\ pc = "rec_login"
    /\ i > Len(accounts_to_login)
    /\ post_tasks' = get_accounts_for_posts(session, accounts, post_urls)
    /\ i' = 1
    /\ pc' = "rec_post"
    /\ UNCHANGED <<ledgerVars, accounts_to_login, browser, run_no, recorded, envVars>>
    /\ RecFrame

\* process_single_post(account, post_url, session) inside the post loop:
\* ok is whether launch, new_page and goto went through, logged_in the
\* result of check_login_status, relogin that of enhanced_login_to_facebook
\* and success that of enhanced_like_comment_post, which records the pair
\* through the module-level ledger
RecPost(ok, logged_in, relogin, success) ==
    /\ pc = "rec_post"
    /\ i <= Len(post_tasks)
    /\ LET acc == post_tasks[i][1]
           url == post_tasks[i][2]
           cur == save_state([session EXCEPT !.current_account = acc], now)
           logged == IF ok /\ ~logged_in
                     THEN save_state(mark_login_attempt(cur, acc, relogin), now)
                     ELSE cur
           posted == ok /\ (logged_in \/ relogin)
           rec1 == RecordTask(recorded, post_tasks[i])
           rec2 == IF ok /\ ~logged_in THEN RecordLogin(rec1, acc, relogin) ELSE rec1
       IN /\ session' = logged
          /\ IF posted /\ success
             THEN /\ gsession' = save_state(mark_post_processed(gsession, acc, url), now)
                  /\ file' = <<gsession'>>
                  /\ recorded' = RecordPost(rec2, acc, url)
             ELSE /\ gsession' = gsession
                  /\ file' = <<session'>>
                  /\ recorded' = rec2
          /\ gap' = IF posted THEN PostGap ELSE NoGap
    /\ i' = i + 1
    /\ browser' = None
    /\ open_profiles' = IF ok THEN Closed(Opened(open_profiles, post_tasks[i][1]),
                                          post_tasks[i][1])
                        ELSE open_profiles
    /\ UNCHANGED <<queryVars, pc, run_no>>
    /\ RecFrame

\* the completion check that leaves the loop as soon as no login is pending
RecCheck_logins_only ==
    /\ pc = "rec_post"
    /\ i > Len(post_tasks)
    /\ pc' = IF get_accounts_for_login(session, accounts) = <<>>
             THEN "rec_returned" ELSE "rec_top"
    /\ UNCHANGED <<ledgerVars, queryVars, i, browser, run_no, recorded, envVars>>
    /\ RecFrame

\* the post loop is over: remaining_logins and remaining_posts, and the
\* break when both are empty
RecCheck ==
    /\ pc = "rec_post"
    /\ i > Len(post_tasks)
    /\ pc' = IF /\ get_accounts_for_login(session, accounts) = <<>>
                /\ get_accounts_for_posts(session, accounts, post_urls) = <<>>
             THEN "rec_returned" ELSE "rec_top"
    /\ UNCHANGED <<ledgerVars, queryVars, i, browser, run_no, recorded, envVars>>
    /\ RecFrame

\* KeyboardInterrupt in one of the two loops: `return`
RecInterrupt ==
    /\ pc \in {"rec_login", "rec_post"}
    /\ pc' = "rec_interrupted"
    /\ UNCHANGED <<ledgerVars, queryVars, i, browser, run_no, recorded, envVars>>
    /\ RecFrame

\* mark_login_attempt for an account whose login a former run has recorded
Marked(st, acc, x) ==
    IF x = "new" THEN st ELSE mark_login_attempt(st, acc, x = "True")

\* the ledgers a former run can have left in the file
StartLedgers ==
    {save_state(IF z THEN mark_post_processed(Marked(Marked(fresh_state(0), "a1", x),
                                                     "a2", y), "a1", "r1")
                ELSE Marked(Marked(fresh_state(0), "a1", x), "a2", y), 0) :
        x \in {"new", "True", "False"}, y \in {"new", "True", "False"}, z \in BOOLEAN}

InitRecovery ==
    /\ now = 0
    /\ session \in StartLedgers
    /\ file = <<session>>
    /\ gsession = load_state(file, now)
    /\ accounts \in {<<"a1">>, <<"a1", "a2">>}
    /\ post_urls \in {<<>>, <<"r1">>, <<"r1", "r2">>}
    /\ accounts_to_login = <<>>
    /\ post_tasks = <<>>
    /\ op = NoOp
    /\ calls = 0
    /\ repeated = FALSE
    /\ last_outcome = [a \in AccountIds |-> "none"]
    /\ pc = "rec_top"
    /\ i = 1
    /\ browser = None
    /\ run_no = 0
    /\ recorded = NothingRecorded
    /\ RetryIdle
    /\ removed_counts = NoCounts
    /\ AuthIdle
    /\ open_profiles = {}
    /\ gap = NoGap
    /\ PostIdle

NextRecovery ==
    \/ RecTop
    \/ \E o \in {"True", "False", "error"} : RecLogin(o)
    \/ RecRefresh
    \/ \E ok, logged_in, relogin, success \in BOOLEAN :
           RecPost(ok, logged_in, relogin, success)
    \/ RecCheck
    \/ RecInterrupt

SpecRecovery == InitRecovery /\ [][NextRecovery]_vars

\* ------------------------------------------------------------- properties

Successful(st) == Range(st.successful_logins)
Failed(st) == Range(st.failed_logins)
Attempted(st) == Range(st.login_attempts)
Processed(st) == Range(st.processed_posts)
IsCall == calls' = calls + 1

\* C1 (I1, P2): after every call, no account id is in both successful_logins
\* and failed_logins, in memory and in the file.
C1_Disjoint ==
    /\ Successful(session) \cap Failed(session) = {}
    /\ file # <<>> => Successful(file[1]) \cap Failed(file[1]) = {}

\* a1 failed first, a2 succeeded, then a1 succeeded: a1 changed sides
C1_Witness ==
    /\ op.name = "mark_login_attempt"
    /\ session.login_attempts = <<"a1", "a2">>
    /\ session.successful_logins = <<"a2", "a1">>
    /\ session.failed_logins = <<>>

\* C2 (I2, P2): after every call, every id in successful_logins or
\* failed_logins is also in login_attempts.
C2_AttemptsCoverOutcomes ==
    /\ Successful(session) \cup Failed(session) \subseteq Attempted(session)
    /\ file # <<>> =>
           Successful(file[1]) \cup Failed(file[1]) \subseteq Attempted(file[1])

C2_Witness ==
    /\ op.name = "mark_login_attempt"
    /\ op.account \in Failed(session)
    /\ Successful(session) # {}
    /\ Len(session.login_attempts) = 2

\* C3: an attempted id is in exactly one of successful_logins and
\* failed_logins, the one matching the outcome of its latest
\* mark_login_attempt call, and that call leaves the membership of every
\* other id as it was.
C3_ExactlyOne ==
    \A a \in Attempted(session) :
        /\ (a \in Successful(session)) # (a \in Failed(session))
        /\ (a \in Successful(session)) <=> (last_outcome[a] = "ok")
        /\ (a \in Failed(session)) <=> (last_outcome[a] = "fail")

C3_Frame ==
    (IsCall /\ op'.name = "mark_login_attempt") =>
        \A b \in AccountIds \ {op'.account} :
            /\ (b \in Attempted(session')) <=> (b \in Attempted(session))
            /\ (b \in Successful(session')) <=> (b \in Successful(session))
            /\ (b \in Failed(session')) <=> (b \in Failed(session))

C3_LatestOutcomeWins == [](C3_ExactlyOne) /\ [][C3_Frame]_vars

\* a1 succeeded first, a2 failed, then a1 failed: a1 moved, a2 stayed
C3_Witness ==
    /\ op.name = "mark_login_attempt"
    /\ op.account = "a1"
    /\ last_outcome["a1"] = "fail"
    /\ session.login_attempts = <<"a1", "a2">>
    /\ session.failed_logins = <<"a2", "a1">>
    /\ session.successful_logins = <<>>

\* C4 (I3): a step removes a pair from processed only if it is a
\* reset_session or a remove_account_ids call; mark_login_attempt,
\* mark_post_processed, set_current_account and the queries never do.
FileProcessed == IF file = <<>> THEN {} ELSE Processed(file[1])

C4_Step ==
    (\/ ~(Processed(session) \subseteq Processed(session'))
     \/ ~(FileProcessed \subseteq FileProcessed'))
        => (IsCall /\ op'.name \in {"reset_session", "remove_account_ids"})

C4_ProcessedOnlyGrows == [][C4_Step]_vars

\* two pairs are processed and a later login outcome has been marked
C4_Witness ==
    /\ op.name = "mark_login_attempt"
    /\ op.arg = "False"
    /\ Len(session.processed_posts) = 2
    /\ op.account \in {e.account_id : e \in Processed(session)}

\* C5 (P3): a second mark_post_processed call with the same pair leaves the
\* ledger, in memory and in the file, as the first call left it, apart from
\* last_update; processed holds the pair once.
SameButLastUpdate(s1, s2) == [s1 EXCEPT !.last_update = s2.last_update] = s2

C5_Step ==
    (IsCall /\ repeated' /\ op'.name = "mark_post_processed") =>
        /\ SameButLastUpdate(session, session')
        /\ session'.processed_posts = session.processed_posts
        /\ Cardinality({k \in DOMAIN session'.processed_posts :
                           session'.processed_posts[k] = Entry(op'.account, op'.arg)}) = 1
        /\ file # <<>> /\ file' # <<>> /\ SameButLastUpdate(file[1], file'[1])

C5_MarkPostProcessedIdempotent == [][C5_Step]_vars

\* the same pair was marked twice in a row, at two different times
C5_Witness ==
    /\ repeated
    /\ op.name = "mark_post_processed"
    /\ Len(session.processed_posts) = 2
    /\ session.last_update = 1
    /\ session.session_id = 0

\* C6 (I4): in every orchestrator run, whenever a pair is added to
\* processed, its account is in successful_logins of the run's ledger at
\* that moment, also after an earlier pair of the account had a failed
\* re-login.
C6_Step ==
    (pc = "p2_post" /\ Processed(gsession') # Processed(gsession)) =>
        post_tasks[i][1] \in Successful(session)

C6_ProcessedImpliesLoggedIn == [][C6_Step]_vars

\* C7 (P1): a scheduler query leaves the in-memory and the persisted ledger
\* unchanged, and a query repeated against the unchanged ledger and
\* catalogs returns the result it returned before.
IsQuery(name) == name \in {"get_accounts_for_login", "get_accounts_for_posts"}

C7_Step ==
    /\ (IsCall /\ IsQuery(op'.name)) =>
           /\ session' = session
           /\ gsession' = gsession
           /\ file' = file
    /\ (IsCall /\ repeated' /\ op'.name = "get_accounts_for_login") =>
           accounts_to_login' = accounts_to_login
    /\ (IsCall /\ repeated' /\ op'.name = "get_accounts_for_posts") =>
           post_tasks' = post_tasks

C7_QueriesHaveNoSideEffect == [][C7_Step]_vars

\* the login query was run twice in a row on a written ledger and returned
\* an account, later than the ledger's last write
C7_Witness ==
    /\ repeated
    /\ op.name = "get_accounts_for_login"
    /\ accounts_to_login # <<>>
    /\ file # <<>>
    /\ session.login_attempts # <<>>
    /\ now > session.last_update

\* position of x in a catalog
IndexIn(seq, x) == CHOOSE k \in DOMAIN seq : seq[k] = x

InCatalogOrder(res, seq) ==
    \A p, q \in DOMAIN res : p < q => IndexIn(seq, res[p]) < IndexIn(seq, res[q])

PairBefore(x, y) ==
    \/ IndexIn(accounts, x[1]) < IndexIn(accounts, y[1])
    \/ x[1] = y[1] /\ IndexIn(post_urls, x[2]) < IndexIn(post_urls, y[2])

C10_Scenario ==
    /\ accounts = <<"a1", "a2">>
    /\ post_urls = <<"r1">>
    /\ recorded.attempts = {"a1", "a2"}
    /\ recorded.ok = {"a1"}
    /\ recorded.failed = {"a2"}
    /\ recorded.processed = {<<"a1", "r1">>}

C10_SecondRunHasNoWork ==
    (run_no = 2 /\ C10_Scenario) =>
        /\ pc = "p1_head" => accounts_to_login = <<>>
        /\ pc = "p2_head" => post_tasks = <<>>

\* the durable record as the next invocation will load it
Durable == load_state(file, now)

ProcessedPairs(st) == {<<e.account_id, e.post_url>> : e \in Processed(st)}

\* C11: at every point of the first run, the durable ledger holds every
\* login outcome and every processed pair the run has recorded so far, so
\* that no later write of the run drops an earlier record.
C11_DurableKeepsRecords ==
    run_no = 1 =>
        /\ recorded.attempts \subseteq Attempted(Durable)
        /\ recorded.ok \subseteq Successful(Durable)
        /\ recorded.failed \subseteq Failed(Durable)
        /\ recorded.processed \subseteq ProcessedPairs(Durable)

\* C12: over any sequence of runs without reset or cleanup, interrupted or
\* not, no pair's interaction is completed successfully more than once.
C12_AtMostOneSuccessPerPair == recorded.twice = {}

InPhase2 ==
    pc \in {"p2_head", "p2_launch", "p2_check", "p2_relogin", "p2_post", "p2_close",
            "p2_skip"}

C14_BackoffBound ==
    max_retries >= 1 =>
        /\ rstatus = "running" =>
              /\ attempt < max_retries
              /\ invoked = attempt
              /\ sleeps = attempt
        /\ rstatus = "raised" =>
              /\ invoked = max_retries
              /\ sleeps = max_retries - 1
              /\ error = invoked

C14_Witness ==
    /\ rstatus = "raised"
    /\ max_retries = MaxRetries
    /\ sleeps = MaxRetries - 1

\* C15: the sleep after failed attempt k (counted from 0) is
\* base_delay * 2^k seconds plus a jitter between 0 and 2 seconds; with
\* max_retries = 3 and base_delay = 2 the sleeps of an always-failing call
\* add up to between 6 and 10 seconds.
C15_BackoffDelays ==
    /\ sleeps >= 1 =>
          /\ delay >= base_delay * Pow2(sleeps - 1) * TicksPerSecond
          /\ delay <= (base_delay * Pow2(sleeps - 1) + JitterMax) * TicksPerSecond
    /\ (rstatus = "raised" /\ max_retries = DefaultMaxRetries
            /\ base_delay = DefaultBaseDelay) =>
          /\ slept >= 6 * TicksPerSecond
          /\ slept <= 10 * TicksPerSecond

\* the default call has failed for good after the longest possible sleeps
C15_Witness ==
    /\ rstatus = "raised"
    /\ max_retries = DefaultMaxRetries
    /\ base_delay = DefaultBaseDelay
    /\ slept = 10 * TicksPerSecond

Mutations ==
    {"mark_login_attempt", "mark_post_processed", "set_current_account",
     "reset_session"}

\* C16: when a mutation of the ledger (mark_login_attempt,
\* mark_post_processed, set_current_account, reset_session) has returned,
\* the durable record equals the in-memory record, whatever the write did.
C16_Step == (IsCall /\ op'.name \in Mutations) => file' = <<session'>>

C16_DurableEqualsMemory == [][C16_Step]_vars

\* C17: after reset_session, from any ledger state, the four collections
\* are empty, current_account is null, the session_id differs from the one
\* before the reset, and the new record is the durable one.
C17_Step ==
    (IsCall /\ op'.name = "reset_session") =>
        /\ session'.login_attempts = <<>>
        /\ session'.successful_logins = <<>>
        /\ session'.failed_logins = <<>>
        /\ session'.processed_posts = <<>>
        /\ session'.current_account = None
        /\ session'.session_id # session.session_id
        /\ file' = <<session'>>

C17_ResetStartsNewEra == [][C17_Step]_vars

\* after is before without the entries that out picks, in the same order
FilteredBy(before, after, out(_)) ==
    /\ Len(after) = Cardinality({k \in DOMAIN before : ~out(before[k])})
    /\ \A k \in DOMAIN after : ~out(after[k])
    /\ \A k \in DOMAIN before :
          ~out(before[k]) => \E p \in DOMAIN after : after[p] = before[k]
    /\ \A p, q \in DOMAIN after :
          p < q => \E m, n \in DOMAIN before :
                      m < n /\ before[m] = after[p] /\ before[n] = after[q]

\* C18: remove_account_ids(S), from any ledger and for any set S of ids,
\* drops every id of S from login_attempts, successful_logins and
\* failed_logins and every processed pair of an account of S, sets
\* current_account to null if and only if it was in S, and leaves the
\* entries of every other account, their order and session_id as they
\* were; a real removal then writes that record.
C18_Step ==
    (IsCall /\ op'.name = "remove_account_ids") =>
        LET S == op'.ids
            inS(x) == x \in S
            ofS(e) == e.account_id \in S
        IN /\ FilteredBy(session.login_attempts, session'.login_attempts, inS)
           /\ FilteredBy(session.successful_logins, session'.successful_logins, inS)
           /\ FilteredBy(session.failed_logins, session'.failed_logins, inS)
           /\ FilteredBy(session.processed_posts, session'.processed_posts, ofS)
           /\ session'.current_account =
                  IF session.current_account \in S THEN None
                  ELSE session.current_account
           /\ session'.session_id = session.session_id
           /\ session'.start_time = session.start_time
           /\ op'.arg = "False" => file' \in {<<session'>>, file, <<Corrupt>>}

C18_CleanupIsSurgical == [][C18_Step]_vars

\* a1 was removed from a ledger that held a1 and a2: a2's login is still
\* recorded
C18_Witness ==
    /\ op.name = "remove_account_ids"
    /\ op.arg = "False"
    /\ op.ids = {"a1"}
    /\ removed_counts.login_attempts = 1
    /\ removed_counts.successful_logins = 1
    /\ session.login_attempts = <<"a2">>
    /\ session.successful_logins = <<"a2">>
    /\ file = <<session>>

\* C19: remove_account_ids(S, dry_run=True) leaves the durable record and
\* the tool's in-memory ledger as they were (but for the time stamp) and
\* returns the counts a real removal would report.
C19_Step ==
    (IsCall /\ op'.name = "remove_account_ids" /\ op'.arg = "True") =>
        /\ file' = file
        /\ SameButLastUpdate(session', session)
        /\ removed_counts'.login_attempts =
               Cardinality({k \in DOMAIN session.login_attempts :
                               session.login_attempts[k] \in op'.ids})
        /\ removed_counts'.processed_posts =
               Cardinality({k \in DOMAIN session.processed_posts :
                               session.processed_posts[k].account_id \in op'.ids})

C19_PreviewChangesNothing == [][C19_Step]_vars

\* C20: reset_all_session_data(dry_run=True) leaves the in-memory ledger and
\* the durable record (as the next invocation loads it, but for the time
\* stamp) as they were.
C20_Step ==
    (IsCall /\ op'.name = "reset_all_session_data" /\ op'.arg = "True") =>
        /\ session' = session
        /\ SameButLastUpdate(load_state(file', now'), load_state(file, now))

C20_DryResetChangesNothing == [][C20_Step]_vars


\* ------------------------------------------ properties of the login protocol

\* C21: each call of enhanced_login_to_facebook calls mark_login_attempt
\* exactly once, after retry_with_backoff has returned or raised, with
\* success = TRUE exactly when an attempt succeeded; nothing is recorded while
\* attempts are still being retried.
C21_MarkedExactlyOnce ==
    /\ pc = "auth" /\ rstatus = "running" => marks = <<>> /\ file = <<fresh_state(0)>>
    /\ pc = "auth" /\ apc = "done" =>
           marks = <<(rstatus = "returned" /\ aresult = "True")>>

\* C23: with from_post = TRUE a challenge detected at the challenge check ends
\* the attempt at once: the form is not reached or filled, and the attempt
\* ends with one failed login recorded.
C23_ChallengeFailsAtOnce ==
    (from_post /\ detected # "NONE") =>
        /\ ~filled
        /\ apc \notin {"form", "await"}
        /\ apc = "attempt_done" => marks = <<FALSE>>

C25_SkipAbortsAttempt ==
    skipped =>
        /\ apc \notin {"form", "await"}
        /\ aresult = "SecurityChallengeException"

\* C26: the re-login of phase 2 never waits for the operator.
C26_Phase2NeverPrompts ==
    caller = "phase2" => ~prompted

\* C29: a poll iteration that finds the alert visible and the account not
\* authenticated ends the attempt at that iteration with the login error.
C29_AlertEndsAttempt ==
    (polls > 0 /\ seen.alert /\ ~seen.logged_in) =>
        /\ apc \in {"attempt_done", "retry_done", "done"}
        /\ aresult = "LoginFailedException: Login error"

Ceil(n, d) == (n + d - 1) \div d

\* C30: the poll loop never runs more than ceil(max_wait / 3) iterations, and
\* an attempt that ends with the timeout has run exactly that many.
C30_PollTerminates ==
    /\ polls <= Ceil(max_wait, CheckInterval)
    /\ aresult = "LoginFailedException: timeout" =>
           polls = Ceil(max_wait, CheckInterval)

C30_Witness ==
    /\ aresult = "LoginFailedException: timeout"
    /\ max_wait = DefaultMaxWait
    /\ polls = DefaultMaxWait \div CheckInterval


\* ----------------------------------------------- properties of the run, II

\* C22: within one era a run never selects for login an account whose login
\* outcome was already recorded: what phase 1 is started with holds no
\* account that was handed to mark_login_attempt before.
C22_Step ==
    (pc = "imported" /\ pc' = "p1_head") =>
        \A k \in 1..Len(accounts_to_login') :
            accounts_to_login'[k] \notin recorded.attempts

InTask ==
    pc \in {"p1_login", "p1_close",
            "p2_check", "p2_relogin", "p2_post", "p2_close", "p2_skip"}

CurrentAccount ==
    IF pc \in {"p1_launch", "p1_login", "p1_close"} THEN accounts_to_login[i]
    ELSE post_tasks[i][1]

C28_Step ==
    /\ (pc # "exited" /\ pc' = "exited") =>
           \/ pc = "p2_head" /\ i > Len(post_tasks)
           \/ Interrupt
    /\ (pc' = "p2_head" /\ i' > Len(post_tasks')) =>
           recorded'.started = Len(accounts_to_login') + Len(post_tasks')

C35_StopsAtFirstSuccess ==
    pc = "retry" =>
        /\ invoked <= max_retries
        /\ (rstatus = "returned" /\ max_retries >= 1) =>
               /\ invoked = attempt + 1
               /\ sleeps = invoked - 1
               /\ result = invoked

C35_Witness ==
    /\ pc = "retry"
    /\ rstatus = "returned"
    /\ max_retries = MaxRetries
    /\ invoked = MaxRetries
    /\ sleeps = MaxRetries - 1
    /\ result = MaxRetries


\* C39: SessionState() on a file that exists but cannot be parsed builds a
\* fresh ledger without raising, and the next mutation overwrites the file
\* with that ledger; on a file that can be parsed the loaded ledger is the
\* persisted record.
C39_Step ==
    /\ (IsCall /\ op'.name = "__init__") =>
           session' = IF file = <<>> \/ file = <<Corrupt>>
                      THEN fresh_state(now)
                      ELSE file[1]
    /\ (IsCall /\ op'.name \in Mutations /\ op.name = "__init__"
            /\ file = <<Corrupt>>) =>
           file' = <<session'>>

C39_LoadRecovers == [][C39_Step]_vars


NoRepeat(s) == Cardinality(Range(s)) = Len(s)

\* C36: starting from a fresh ledger, after any sequence of
\* mark_login_attempt, mark_post_processed, set_current_account,
\* reset_session and remove_account_ids calls, no list of the ledger holds an
\* entry twice, no id is in both outcome lists, and every id of an outcome
\* list is in login_attempts.
C36_ListsAreSets ==
    pc = "api" =>
        /\ NoRepeat(session.login_attempts)
        /\ NoRepeat(session.successful_logins)
        /\ NoRepeat(session.failed_logins)
        /\ NoRepeat(session.processed_posts)
        /\ Successful(session) \cap Failed(session) = {}
        /\ Successful(session) \cup Failed(session) \subseteq Attempted(session)

\* the last of the calls repeated a login: the id is in login_attempts once
C36_Witness ==
    /\ pc = "api"
    /\ op.name = "mark_login_attempt"
    /\ repeated
    /\ session.login_attempts = <<op.account>>
    /\ Len(session.processed_posts) = 1
    /\ calls = MaxCalls


InFlight ==
    pc \in {"p1_launch", "p1_login", "p1_close",
            "p2_launch", "p2_check", "p2_relogin", "p2_post", "p2_close",
            "p2_skip"}

\* C34: whenever a task of a run is in flight, current_account of the
\* durable ledger is the id of that task's account.
C34_CurrentAccountIsTask ==
    InFlight => Durable.current_account = CurrentAccount


\* C33: every task of a phase but the first starts after the delay of its
\* phase was slept since the task before it ended (10 to 30 s between logins,
\* 5 to 15 s between interactions), however that task ended.
C33_Step ==
    /\ (pc = "p1_head" /\ pc' = "p1_launch" /\ i > 1) => gap = LoginGap
    /\ (pc = "p2_head" /\ pc' = "p2_launch" /\ i > 1) => gap = PostGap

C33_DelayBetweenTasks == [][C33_Step]_vars


AccountsOf(tasks) == {tasks[k][1] : k \in DOMAIN tasks}

SameLogins(s1, s2) ==
    /\ s1.login_attempts = s2.login_attempts
    /\ s1.successful_logins = s2.successful_logins
    /\ s1.failed_logins = s2.failed_logins

\* C37: a failed re-login of phase 2 puts the account in failed_logins and
\* takes it out of successful_logins, so that no pair of the account is
\* pending any more for the ledger; the list of pairs of the running phase is
\* not recomputed, and every pair left in it is started, whatever list its
\* account is in.
C37_Step ==
    /\ (pc = "p2_relogin" /\ pc' = "p2_skip") =>
           /\ post_tasks' = post_tasks
           /\ post_tasks[i][1] \in Failed(session')
           /\ post_tasks[i][1] \notin Successful(session')
           /\ post_tasks[i][1] \notin
                  AccountsOf(get_accounts_for_posts(session', accounts, post_urls))
    /\ (pc = "p2_skip" /\ pc' = "p2_head") =>
           /\ post_tasks' = post_tasks
           /\ i' = i + 1
    /\ (pc = "p2_head" /\ pc' # "p2_head" /\ i <= Len(post_tasks)) =>
           \/ pc' = "p2_launch" /\ session'.current_account = post_tasks[i][1]
           \/ Interrupt

C38_Step ==
    /\ (pc = "p1_head" /\ pc' = "p1_launch") =>
           /\ SameLogins(session', session)
           /\ SameLogins(Durable', session)
    /\ (pc \in {"p1_launch", "p1_login", "p1_close"}
            /\ pc' \in {"p1_close", "p1_head"}
            /\ accounts_to_login[i] \in recorded'.aborted) =>
           /\ SameLogins(session', session)
           /\ SameLogins(Durable', session)
           /\ accounts_to_login[i] \in
                  Range(get_accounts_for_login(session', accounts))
           /\ accounts_to_login[i] \in
                  Range(get_accounts_for_login(Durable', accounts))

C32_FailureUsesBudget ==
    pc = "post" =>
        /\ like_success = "False" => tries.like = sub_budget(variant)
        /\ comment_success = "False" => tries.comment = sub_budget(variant)

\* the pair of the call is in processed of the run's ledger or of the file
PairRecorded ==
    \/ has_processed_post(session, post_tasks[1][1], post_tasks[1][2])
    \/ has_processed_post(file[1], post_tasks[1][1], post_tasks[1][2])

\* C31: when the call of the Resource-Interaction Protocol is over, its
\* outcome is the logical OR of the like and the comment outcome, the pair is
\* in processed iff at least one of the two succeeded, and a pair whose
\* sub-actions both failed is pending again on the next scheduling pass.
C31_OutcomeIsOr ==
    pc = "post" /\ ppc = "done" =>
        LET success == like_success = "True" \/ comment_success = "True"
            pair == post_tasks[1]
        IN /\ post_return = BoolStr(success)
           /\ PairRecorded <=> success
           /\ ~success =>
                 \E k \in 1..Len(get_accounts_for_posts(session, accounts, post_urls)) :
                     get_accounts_for_posts(session, accounts, post_urls)[k] = pair


\* C40: run_enhanced_facebook_automation_with_recovery returns without an
\* operator interrupt only where get_accounts_for_login and
\* get_accounts_for_posts of its ledger are both empty; at the end of a pass
\* every pair that was started before, has not succeeded and whose account is
\* still in successful_logins has been started again in that pass; and where
\* the function has returned, every pair it ever started has succeeded or
\* its account has left successful_logins.
C40_ReturnsOnlyWhenNothingPending ==
    /\ pc = "rec_returned" =>
          /\ get_accounts_for_login(session, accounts) = <<>>
          /\ get_accounts_for_posts(session, accounts, post_urls) = <<>>
          /\ \A p \in recorded.tasks :
                \/ p \in recorded.processed
                \/ p[1] \notin Range(session.successful_logins)
    /\ pc = "rec_post" /\ i > Len(post_tasks) =>
          /\ Range(post_tasks) \subseteq recorded.tasks
          /\ \A p \in recorded.tasks \ recorded.processed :
                p[1] \in Range(session.successful_logins) => p \in Range(post_tasks)

\* the function has returned in its second pass, after a pair failed in the
\* first pass and was started again
C40_Witness ==
    /\ pc = "rec_returned"
    /\ run_no = 2
    /\ recorded.tasks \ recorded.processed # {}
    /\ recorded.ok # {}

====
